---- MODULE Spec2Model ----
(***************************************************************************)
(* Foodgram backend: the short-link issuer (Token model, get-link action   *)
(* and the short-link redirect view) and the shopping-list aggregator      *)
(* (shopping cart, RecipeIngredient aggregation, PDF rendering).           *)
(*                                                                         *)
(* Every database query of a request handler is one atomic step; the       *)
(* requests of different worker threads interleave between queries.        *)
(***************************************************************************)
EXTENDS Integers, Sequences, FiniteSets, TLC

(***************************************************************************)
(* Bounds of the exploration.                                              *)
(***************************************************************************)
NumRecipes == 2      \* recipes 1..NumRecipes exist; pk NumRecipes+1 does not
NumUsers == 2        \* authenticated users
NumDraws == 3        \* random streams the generator may draw
MaxLookups == 2      \* no new request starts once the counters sum to this

Procs == {1, 2}      \* the request workers: two requests may overlap
RecipeIds == 1..NumRecipes
RequestPks == 1..(NumRecipes + 1)
Users == 1..NumUsers

(***************************************************************************)
(* settings.py: alphabet and token length.  CHARACTERS is the f-string     *)
(* '{ascii_letters} + {digits}': the letters, then ' ', '+', ' ', then the *)
(* digits, 65 characters in all.                                           *)
(***************************************************************************)
ascii_lowercase ==
    << "a", "b", "c", "d", "e", "f", "g", "h", "i", "j", "k", "l", "m",
       "n", "o", "p", "q", "r", "s", "t", "u", "v", "w", "x", "y", "z" >>

ascii_uppercase ==
    << "A", "B", "C", "D", "E", "F", "G", "H", "I", "J", "K", "L", "M",
       "N", "O", "P", "Q", "R", "S", "T", "U", "V", "W", "X", "Y", "Z" >>

digits == << "0", "1", "2", "3", "4", "5", "6", "7", "8", "9" >>

ascii_letters == ascii_lowercase \o ascii_uppercase

CHARACTERS == ascii_letters \o << " ", "+", " " >> \o digits

TOKEN_LENGTH == 6

BASE_SHORT_URL == "foodgram-bobgoz.duckdns.org/api/s"

Range(s) == {s[i] : i \in DOMAIN s}

(***************************************************************************)
(* random.choices(population, k=k): k independent indexed picks.  The      *)
(* random source is a stream of indices into the population; the streams   *)
(* explored are the first NumDraws of RandomStreams.                       *)
(***************************************************************************)
RandomStreams ==
    << << 1, 27, 56, 2, 28, 57, 3, 29 >>,      \* a A 0 b B 1 c C
       << 1, 54, 2, 53, 3, 56, 4, 55 >>,       \* a + b ' ' c 0 d ' '
       << 26, 52, 65, 25, 51, 64, 24, 50 >>,   \* z Z 9 y Y 8 x X
       << 55, 13, 39, 60, 14, 40, 61, 15 >>,   \* ' ' m M 4 n N 5 o
       << 7, 33, 58, 8, 34, 59, 9, 35 >> >>    \* g G 2 h H 3 i I

Draws == 1..NumDraws

choices(population, k, stream) == [j \in 1..k |-> population[stream[j]]]

(***************************************************************************)
(* urls.py: the short-link route  ^api/s/(?P<short_url>[a-zA-Z0-9]{6})/$   *)
(***************************************************************************)
RouteAlphabet == Range(ascii_lowercase) \cup Range(ascii_uppercase) \cup Range(digits)

RouteLength == 6

RouteMatches(s) == Len(s) = RouteLength /\ \A i \in 1..Len(s) : s[i] \in RouteAlphabet

(***************************************************************************)
(* Recipe.get_absolute_url + request.build_absolute_uri                    *)
(***************************************************************************)
get_absolute_url(pk) == << "recipes", pk >>

LegacyUrl == << "legacy", 0 >>

(***************************************************************************)
(* Ingredient and RecipeIngredient tables (sample content).  Ingredient    *)
(* has no uniqueness constraint: rows 1 and 5 carry the same name and      *)
(* unit; rows 3 and 4 carry the same name with different units.            *)
(***************************************************************************)
Ingredients ==
    << [name |-> << "f", "l", "o", "u", "r" >>, measurement_unit |-> "g"],
       [name |-> << "s", "u", "g", "a", "r" >>, measurement_unit |-> "g"],
       [name |-> << "m", "i", "l", "k" >>, measurement_unit |-> "ml"],
       [name |-> << "m", "i", "l", "k" >>, measurement_unit |-> "l"],
       [name |-> << "f", "l", "o", "u", "r" >>, measurement_unit |-> "g"],
       [name |-> << "f", "l", "o", "u", "r", "s" >>, measurement_unit |-> "kg"] >>

AllRecipeIngredients ==
    { [recipe |-> 1, ingredient |-> 2, amount |-> 50],
      [recipe |-> 1, ingredient |-> 1, amount |-> 200],
      [recipe |-> 1, ingredient |-> 3, amount |-> 100],
      [recipe |-> 2, ingredient |-> 1, amount |-> 300],
      [recipe |-> 2, ingredient |-> 4, amount |-> 1],
      [recipe |-> 2, ingredient |-> 5, amount |-> 25],
      [recipe |-> 3, ingredient |-> 6, amount |-> 2],
      [recipe |-> 3, ingredient |-> 2, amount |-> 50],
      [recipe |-> 4, ingredient |-> 3, amount |-> 100] }

RecipeIngredients == {ri \in AllRecipeIngredients : ri.recipe \in RecipeIds}

\* Recipe.author of the recipes that exist at the start
Author(pk) == ((pk - 1) % NumUsers) + 1

(***************************************************************************)
(* State                                                                   *)
(***************************************************************************)
VARIABLES
    tokens,     \* the Token table: sequence of rows, pk = index
    pc,         \* per worker: position inside the handler
    req,        \* per worker: the request being served
    tok,        \* per worker: the in-memory Token instance
    resp,       \* the response sent by the last step, if it sent one
    issued,     \* history: full_url -> short_urls returned by get-link
    hist,       \* history kept by the specifications that record it
    cart,       \* the ShoppingCart table: (user, recipe) -> number of rows
    cart_req,   \* per worker: the shopping_cart request being served
    download,   \* the download served by the last step, if it served one
    recipes,    \* the Recipe table: sequence of authors, pk = index
    recipe_ingredients, \* the RecipeIngredient table: set of rows
    recipe_req, \* the recipe create or update request being served
    subscriptions, \* the Subscription table: (user, author) -> number of rows
    sub_req     \* per worker: the subscribe request being served

linkState == << tokens, pc, req, tok >>

linkVars == << tokens, pc, req, tok, resp, issued, hist >>

cartVars == << cart, cart_req, download >>

recipeVars == << recipes, recipe_ingredients, recipe_req >>

subVars == << subscriptions, sub_req >>

vars == << tokens, pc, req, tok, resp, issued, hist, cart, cart_req,
          download, recipes, recipe_ingredients, recipe_req,
          subscriptions, sub_req >>

NoReq == [kind |-> "none", short_url |-> << >>, full_url |-> << >>]

NoRecipeReq == [kind |-> "none", user |-> 0, pk |-> 0, data |-> << >>]

NoSubReq == [method |-> "none", user |-> 0, author |-> 0]

NoCartReq == [method |-> "none", user |-> 0, recipe |-> 0, stale |-> FALSE]

NoDownload == [user |-> 0, status |-> 0, shopping_list |-> << >>, document |-> << >>]

NoTok == [id |-> 0, full_url |-> << >>, short_url |-> << >>,
          requests_count |-> 0, is_active |-> FALSE]
NoResp == [kind |-> "none", status |-> 0, short_url |-> << >>, body |-> << >>]

TokenIds == DOMAIN tokens

Row(t) == [full_url |-> t.full_url, short_url |-> t.short_url,
           requests_count |-> t.requests_count, is_active |-> t.is_active]

Instance(i) == [id |-> i, full_url |-> tokens[i].full_url,
                short_url |-> tokens[i].short_url,
                requests_count |-> tokens[i].requests_count,
                is_active |-> tokens[i].is_active]

(***************************************************************************)
(* Token table constraints (models.py): full_url unique, short_url unique. *)
(***************************************************************************)
\* variant: full_url declared without unique=True
UniqueFullUrlUnchecked(t) == TRUE

UniqueFullUrl(t) == \A i \in TokenIds : i # t.id => tokens[i].full_url # t.full_url

\* variant: short_url declared without unique=True
UniqueShortUrlUnchecked(t) == TRUE

UniqueShortUrl(t) == \A i \in TokenIds : i # t.id => tokens[i].short_url # t.short_url

InsertOk(t) == UniqueFullUrl(t) /\ UniqueShortUrl(t)

(***************************************************************************)
(* Responses.  short_url is the short_url of the path a redirect response  *)
(* answers.                                                                *)
(***************************************************************************)
NotFound(kind, s) ==
    [kind |-> kind, status |-> 404, short_url |-> s, body |-> << >>]

ServerError(kind) ==
    [kind |-> kind, status |-> 500, short_url |-> << >>, body |-> << >>]

ShortLinkResponse(t) ==
    [kind |-> "get_link", status |-> 200, short_url |-> << >>,
     body |-> << BASE_SHORT_URL, t.short_url >>]

RedirectResponse(s, t) ==
    [kind |-> "redirect", status |-> 302, short_url |-> s, body |-> t.full_url]

RecipeUrls == {get_absolute_url(pk) : pk \in RecipeIds}

(***************************************************************************)
(* History of the requests answered: lookups counts, per recipe URL, the   *)
(* get-link and redirect requests answered from its token; refetched marks *)
(* the workers whose get_or_create read the row again after a rejected     *)
(* INSERT.                                                                 *)
(***************************************************************************)
NoHist == [recording |-> FALSE, lookups |-> [u \in RecipeUrls |-> 0],
           refetched |-> [p \in Procs |-> FALSE]]

Recorded(p, r) ==
    [hist EXCEPT !.lookups = IF r.status \in {200, 302}
                             THEN [@ EXCEPT ![tok[p].full_url] = @ + 1]
                             ELSE @,
                 !.refetched[p] = FALSE]

Finish(p, r) ==
    /\ pc' = [pc EXCEPT ![p] = "idle"]
    /\ req' = [req EXCEPT ![p] = NoReq]
    /\ tok' = [tok EXCEPT ![p] = NoTok]
    /\ resp' = r
    /\ issued' = IF r.kind = "get_link" /\ r.status = 200
                 THEN [issued EXCEPT ![req[p].full_url] = @ \cup {r.body[2]}]
                 ELSE issued
    /\ hist' = IF hist.recording THEN Recorded(p, r) ELSE hist
    /\ UNCHANGED << cartVars, recipeVars, subVars >>

Continue(p, label, t) ==
    /\ pc' = [pc EXCEPT ![p] = label]
    /\ tok' = [tok EXCEPT ![p] = t]
    /\ resp' = NoResp
    /\ UNCHANGED << tokens, issued, hist, cartVars, recipeVars, subVars >>

RECURSIVE TotalCount(_)
TotalCount(rows) ==
    IF rows = << >> THEN 0 ELSE Head(rows).requests_count + TotalCount(Tail(rows))

CountersBelowBound == TotalCount(tokens) < MaxLookups

(***************************************************************************)
(* get_link, GET /api/recipes/<pk>/get-link/: self.get_object(), then the  *)
(* SELECT of get_or_create.                                                *)
(***************************************************************************)
TokensByFullUrl(u) == {i \in TokenIds : tokens[i].full_url = u}

\* variant: the creating request counted too
NewTokenCounted(u) == [id |-> 0, full_url |-> u, short_url |-> << >>,
                       requests_count |-> 1, is_active |-> TRUE]

\* variant: get_or_create without defaults, the fields' own defaults
NewTokenByModelDefaults(u) == [id |-> 0, full_url |-> u, short_url |-> << >>,
                               requests_count |-> 0, is_active |-> FALSE]

NewToken(u) == [id |-> 0, full_url |-> u, short_url |-> << >>,
                requests_count |-> 0, is_active |-> TRUE]

GetLinkRequest(pk) ==
    [kind |-> "get_link", short_url |-> << >>, full_url |-> get_absolute_url(pk)]

get_link(p, pk) ==
    /\ pc[p] = "idle"
    /\ CountersBelowBound
    /\ LET full_url == get_absolute_url(pk)
           found == TokensByFullUrl(full_url) IN
       IF pk \notin RecipeIds
       THEN /\ resp' = NotFound("get_link", << >>)
            /\ UNCHANGED << tokens, pc, req, tok, issued, hist, cartVars, recipeVars, subVars >>
       ELSE IF Cardinality(found) > 1
       THEN /\ resp' = ServerError("get_link")
            /\ UNCHANGED << tokens, pc, req, tok, issued, hist, cartVars, recipeVars, subVars >>
       ELSE /\ req' = [req EXCEPT ![p] = GetLinkRequest(pk)]
            /\ IF found = {}
               THEN Continue(p, "gen", NewToken(full_url))
               ELSE Continue(p, "update", Instance(CHOOSE i \in found : TRUE))

(***************************************************************************)
(* Token.generate_short_url: one iteration of the while loop (a draw and   *)
(* the exists() query).                                                    *)
(***************************************************************************)
\* variant: the loop without its exists() test
ShortUrlExistsNever(s) == FALSE

ShortUrlExists(s) == \E i \in TokenIds : tokens[i].short_url = s

generate_short_url(p, d) ==
    /\ pc[p] = "gen"
    /\ LET short_url == choices(CHARACTERS, TOKEN_LENGTH, RandomStreams[d]) IN
       IF ~ShortUrlExists(short_url)
       THEN Continue(p, "save", [tok[p] EXCEPT !.short_url = short_url])
            /\ UNCHANGED req
       ELSE resp' = NoResp /\ UNCHANGED << linkState, issued, hist, cartVars, recipeVars, subVars >>

(***************************************************************************)
(* Token.save after the short_url is set: super().save().  For a new       *)
(* instance it is the INSERT of get_or_create's create(), inside a         *)
(* savepoint; for a stored one the UPDATE of the row.                      *)
(***************************************************************************)
Response(p, t) ==
    IF req[p].kind = "get_link"
    THEN ShortLinkResponse(t)
    ELSE RedirectResponse(req[p].short_url, t)

save(p) ==
    /\ pc[p] = "save"
    /\ IF tok[p].id # 0
       THEN /\ tokens' = [tokens EXCEPT ![tok[p].id] = Row(tok[p])]
            /\ Finish(p, Response(p, tok[p]))
       ELSE IF InsertOk(tok[p])
       THEN /\ tokens' = Append(tokens, Row(tok[p]))
            /\ Finish(p, ShortLinkResponse(tok[p]))
       ELSE Continue(p, "reget", tok[p]) /\ UNCHANGED req

(***************************************************************************)
(* get_or_create: on IntegrityError, SELECT again; re-raise when the row   *)
(* is still missing.                                                       *)
(***************************************************************************)
\* variant: create() where get_or_create is called, the IntegrityError raised
GetOrCreateNoReget(p) ==
    /\ pc[p] = "reget"
    /\ Finish(p, ServerError("get_link"))
    /\ UNCHANGED tokens

GetOrCreateReget(p) ==
    /\ pc[p] = "reget"
    /\ LET found == TokensByFullUrl(req[p].full_url) IN
       IF Cardinality(found) = 1
       THEN /\ pc' = [pc EXCEPT ![p] = "update"]
            /\ tok' = [tok EXCEPT ![p] = Instance(CHOOSE i \in found : TRUE)]
            /\ resp' = NoResp
            /\ hist' = IF hist.recording
                       THEN [hist EXCEPT !.refetched[p] = TRUE]
                       ELSE hist
            /\ UNCHANGED << tokens, req, issued, cartVars, recipeVars, subVars >>
       ELSE Finish(p, ServerError("get_link")) /\ UNCHANGED tokens

(***************************************************************************)
(* GET /api/s/<short_url>/: the route, then ShortLinkRedirectView.get with *)
(* its get_object_or_404.                                                  *)
(***************************************************************************)
\* variant: the lookup without is_active=True
TokensByShortUrl(s) == {i \in TokenIds : tokens[i].short_url = s}

ActiveTokensByShortUrl(s) ==
    {i \in TokenIds : tokens[i].short_url = s /\ tokens[i].is_active}

RedirectRequest(s) == [kind |-> "redirect", short_url |-> s, full_url |-> << >>]

ShortLinkRedirect(p, s) ==
    /\ pc[p] = "idle"
    /\ CountersBelowBound
    /\ LET found == ActiveTokensByShortUrl(s) IN
       IF ~RouteMatches(s) \/ found = {}
       THEN /\ resp' = NotFound("redirect", s)
            /\ UNCHANGED << tokens, pc, req, tok, issued, hist, cartVars, recipeVars, subVars >>
       ELSE /\ req' = [req EXCEPT ![p] = RedirectRequest(s)]
            /\ Continue(p, "update", Instance(CHOOSE i \in found : TRUE))

(***************************************************************************)
(* token.requests_count += 1; token.save()  (an UPDATE of the whole row)   *)
(***************************************************************************)
\* variant: the counter left as read
IncrementSkipped(n) == n

Increment(n) == n + 1

\* variant: '-=' written for '+='
Decremented(t) == [t EXCEPT !.requests_count = t.requests_count - 1]

Incremented(t) == [t EXCEPT !.requests_count = Increment(t.requests_count)]

\* variant: save without the 'if not self.short_url' test
NeedsShortUrlAlways(t) == TRUE

\* Token.save: a short_url is generated when the instance has none
NeedsShortUrl(t) == t.short_url = << >>

\* variant: the increment done by the database, F('requests_count') + 1
IncrementInDatabase(p) ==
    /\ pc[p] = "update"
    /\ tokens' = [tokens EXCEPT ![tok[p].id].requests_count = @ + 1]
    /\ Finish(p, Response(p, tok[p]))

IncrementAndSave(p) ==
    /\ pc[p] = "update"
    /\ IF NeedsShortUrl(tok[p])
       THEN Continue(p, "gen", Incremented(tok[p])) /\ UNCHANGED req
       ELSE /\ tokens' = [tokens EXCEPT ![tok[p].id] = Row(Incremented(tok[p]))]
            /\ Finish(p, Response(p, tok[p]))

(***************************************************************************)
(* Specification of the short-link issuer.  The table starts empty or with *)
(* one inactive row (is_active defaults to False) of a non-recipe URL.     *)
(***************************************************************************)
ShortUrls == {choices(CHARACTERS, TOKEN_LENGTH, RandomStreams[d]) : d \in Draws}

LegacyToken == [full_url |-> LegacyUrl,
                short_url |-> choices(CHARACTERS, TOKEN_LENGTH, RandomStreams[1]),
                requests_count |-> 0, is_active |-> FALSE]

InitRequests ==
    /\ pc = [p \in Procs |-> "idle"]
    /\ req = [p \in Procs |-> NoReq]
    /\ tok = [p \in Procs |-> NoTok]
    /\ resp = NoResp
    /\ issued = [u \in RecipeUrls |-> {}]
    /\ cart = [c \in Users \X RecipeIds |-> 0]
    /\ cart_req = [p \in Procs |-> NoCartReq]
    /\ download = NoDownload
    /\ recipes = [pk \in RecipeIds |-> Author(pk)]
    /\ recipe_ingredients = RecipeIngredients
    /\ recipe_req = NoRecipeReq
    /\ subscriptions = [c \in Users \X Users |-> 0]
    /\ sub_req = [p \in Procs |-> NoSubReq]

InitWorkers == InitRequests /\ hist = NoHist

Init == tokens \in {<< >>, << LegacyToken >>} /\ InitWorkers

Next ==
    \E p \in Procs :
        \/ \E pk \in RequestPks : get_link(p, pk)
        \/ \E s \in ShortUrls : ShortLinkRedirect(p, s)
        \/ \E d \in Draws : generate_short_url(p, d)
        \/ save(p)
        \/ GetOrCreateReget(p)
        \/ IncrementAndSave(p)

Spec == Init /\ [][Next]_vars

(***************************************************************************)
(* ORDER BY ingredient__name: the database compares names character by     *)
(* character.                                                              *)
(***************************************************************************)
CharRank(c) == CHOOSE i \in DOMAIN ascii_lowercase : ascii_lowercase[i] = c

RECURSIVE NameLess(_, _)
NameLess(a, b) ==
    IF b = << >> THEN FALSE
    ELSE IF a = << >> THEN TRUE
    ELSE IF CharRank(Head(a)) # CharRank(Head(b))
         THEN CharRank(Head(a)) < CharRank(Head(b))
         ELSE NameLess(Tail(a), Tail(b))

NameLeq(a, b) == ~NameLess(b, a)

(***************************************************************************)
(* _generate_shopping_list: the queryset                                   *)
(*   RecipeIngredient.filter(recipe__in_shopping_carts__user=user)         *)
(*     .values(name, unit).annotate(total=Sum(amount)).order_by(name)      *)
(***************************************************************************)
\* variant: the filter without the user
JoinedAnyUser(user) ==
    {<< ri, n >> \in recipe_ingredients \X (1..Cardinality(recipe_ingredients)) :
        \E u \in Users : n <= cart[<< u, ri.recipe >>]}

\* filter(): RecipeIngredient JOIN ShoppingCart ON recipe, WHERE user; a
\* joined row is a RecipeIngredient row paired with the cart row it met
Joined(user) ==
    {<< ri, n >> \in recipe_ingredients \X (1..Cardinality(recipe_ingredients)) :
        n <= cart[<< user, ri.recipe >>]}

\* values(): the GROUP BY key of a joined row
GroupKey(j) == << Ingredients[j[1].ingredient].name,
                  Ingredients[j[1].ingredient].measurement_unit >>

RECURSIVE Sum(_)
Sum(rows) ==
    IF rows = {} THEN 0
    ELSE LET j == CHOOSE x \in rows : TRUE
         IN j[1].amount + Sum(rows \ {j})

\* annotate(total=Sum('amount')): one dict per group
Annotate(user, key) ==
    [ingredient__name |-> key[1], ingredient__measurement_unit |-> key[2],
     total |-> Sum({j \in Joined(user) : GroupKey(j) = key})]

Groups(user) == {Annotate(user, GroupKey(j)) : j \in Joined(user)}

\* order_by(): a stable sort of the groups, in whatever order the database
\* produced them, on the name alone
RECURSIVE InsertByName(_, _)
InsertByName(sorted, g) ==
    IF sorted = << >> THEN << g >>
    ELSE IF NameLess(g.ingredient__name, Head(sorted).ingredient__name)
         THEN << g >> \o sorted
         ELSE << Head(sorted) >> \o InsertByName(Tail(sorted), g)

RECURSIVE OrderByName(_)
OrderByName(scan) ==
    IF scan = << >> THEN << >>
    ELSE InsertByName(OrderByName(SubSeq(scan, 1, Len(scan) - 1)), scan[Len(scan)])

\* the orders in which the database may produce the groups
RECURSIVE Scans(_)
Scans(groups) ==
    IF groups = {} THEN {<< >>}
    ELSE UNION {{<< g >> \o q : q \in Scans(groups \ {g})} : g \in groups}

\* variant: the queryset without order_by
Unordered(scan) == scan

generate_shopping_list(scan) == OrderByName(scan)

(***************************************************************************)
(* download_shopping_cart: the PDF canvas.  A document is the sequence of  *)
(* its pages, a page the sequence of its drawString calls.                 *)
(***************************************************************************)
TopOfPage == 750
HeaderStep == 30
LineStep == 20
BottomOfPage == 50

\* the header line (the Russian for "Shopping list")
Header == [y |-> TopOfPage, text |-> << "Spisok pokupok" >>]

Line(y, item) ==
    [y |-> y, text |-> << item.ingredient__name, item.total,
                          item.ingredient__measurement_unit >>]

\* variant: the page ended by 'y_position <= 50'
RECURSIVE DrawItemsInclusive(_, _, _, _)
DrawItemsInclusive(items, pages, page, y) ==
    IF items = << >>
    THEN IF page = << >> THEN pages ELSE Append(pages, page)
    ELSE LET drawn == Append(page, Line(y, Head(items)))
             next_y == y - LineStep
         IN IF next_y <= BottomOfPage
            THEN DrawItemsInclusive(Tail(items), Append(pages, drawn), << >>, TopOfPage)
            ELSE DrawItemsInclusive(Tail(items), pages, drawn, next_y)

RECURSIVE DrawItems(_, _, _, _)
DrawItems(items, pages, page, y) ==
    IF items = << >>
    THEN \* p.save(): the open page is emitted when something was drawn on it
         IF page = << >> THEN pages ELSE Append(pages, page)
    ELSE LET drawn == Append(page, Line(y, Head(items)))
             next_y == y - LineStep
         IN IF next_y < BottomOfPage
            THEN DrawItems(Tail(items), Append(pages, drawn), << >>, TopOfPage)
            ELSE DrawItems(Tail(items), pages, drawn, next_y)

\* variant: the header drawn by the first item only
RenderPdfNoHeader(shopping_list) ==
    DrawItems(shopping_list, << >>, << >>, TopOfPage - HeaderStep)

RenderPdf(shopping_list) ==
    DrawItems(shopping_list, << >>, << Header >>, TopOfPage - HeaderStep)

DownloadShoppingCart(user) ==
    /\ \E scan \in Scans(Groups(user)) :
         LET shopping_list == generate_shopping_list(scan) IN
         download' = [user |-> user, status |-> 200,
                      shopping_list |-> shopping_list,
                      document |-> RenderPdf(shopping_list)]
    /\ resp' = NoResp
    /\ UNCHANGED << linkState, issued, hist, cart, cart_req, recipeVars, subVars >>

(***************************************************************************)
(* shopping_cart: POST adds the recipe to the user's cart, DELETE removes  *)
(* it.                                                                     *)
(***************************************************************************)
\* variant: the lookup without user=request.user
CartRowsAnyUser(user, recipe) ==
    Cardinality({u \in Users : cart[<< u, recipe >>] >= 1})

CartRows(user, recipe) == cart[<< user, recipe >>]

\* variant: ShoppingCart without the unique_user_recipe_in_cart constraint
UniqueUserRecipeInCartUnchecked(user, recipe) == TRUE

UniqueUserRecipeInCart(user, recipe) == CartRows(user, recipe) = 0

CartResponse(status) ==
    [kind |-> "shopping_cart", status |-> status, short_url |-> << >>, body |-> << >>]

FinishCart(p, status) ==
    /\ pc' = [pc EXCEPT ![p] = "idle"]
    /\ resp' = CartResponse(status)
    /\ download' = NoDownload
    /\ UNCHANGED << tokens, req, tok, issued, hist, recipeVars, subVars >>

ContinueCart(p, label, r) ==
    /\ pc' = [pc EXCEPT ![p] = label]
    /\ cart_req' = [cart_req EXCEPT ![p] = r]
    /\ resp' = NoResp
    /\ download' = NoDownload
    /\ UNCHANGED << tokens, req, tok, issued, hist, cart, recipeVars, subVars >>

\* get_object_or_404(Recipe), then exists() for POST or get() for DELETE
shopping_cart(p, method, user, pk) ==
    /\ pc[p] = "idle"
    /\ LET r == [method |-> method, user |-> user, recipe |-> pk, stale |-> FALSE] IN
       IF pk \notin RecipeIds
       THEN FinishCart(p, 404) /\ UNCHANGED << cart, cart_req >>
       ELSE IF method = "POST"
       THEN IF CartRows(user, pk) # 0
            THEN FinishCart(p, 400) /\ UNCHANGED << cart, cart_req >>
            ELSE ContinueCart(p, "cart_insert", r)
       ELSE IF CartRows(user, pk) = 0
            THEN FinishCart(p, 400) /\ UNCHANGED << cart, cart_req >>
            ELSE IF CartRows(user, pk) > 1
            THEN FinishCart(p, 500) /\ UNCHANGED << cart, cart_req >>
            ELSE ContinueCart(p, "cart_delete", r)

\* ShoppingCart.objects.create(): the INSERT under unique_user_recipe_in_cart
ShoppingCartCreate(p) ==
    /\ pc[p] = "cart_insert"
    /\ cart_req' = [cart_req EXCEPT ![p] = NoCartReq]
    /\ LET row == << cart_req[p].user, cart_req[p].recipe >> IN
       IF UniqueUserRecipeInCart(row[1], row[2])
       THEN cart' = [cart EXCEPT ![row] = @ + 1] /\ FinishCart(p, 201)
       ELSE FinishCart(p, 500) /\ UNCHANGED cart

\* cart_item.delete(): DELETE by primary key.  It deletes nothing when the
\* row was deleted meanwhile (stale); the instances other workers hold of
\* the deleted row become stale.
ShoppingCartDelete(p) ==
    /\ pc[p] = "cart_delete"
    /\ LET row == << cart_req[p].user, cart_req[p].recipe >> IN
       IF cart_req[p].stale
       THEN /\ cart' = cart
            /\ cart_req' = [cart_req EXCEPT ![p] = NoCartReq]
       ELSE /\ cart' = [cart EXCEPT ![row] = @ - 1]
            /\ cart_req' =
                 [q \in Procs |->
                    IF q = p THEN NoCartReq
                    ELSE IF /\ cart_req[q].method = "DELETE"
                            /\ cart_req[q].user = row[1]
                            /\ cart_req[q].recipe = row[2]
                    THEN [cart_req[q] EXCEPT !.stale = TRUE]
                    ELSE cart_req[q]]
    /\ FinishCart(p, 204)

(***************************************************************************)
(* Specification of the shopping cart and the shopping-list download, in   *)
(* serial executions: a request starts when no other is being served.      *)
(***************************************************************************)
AllIdle == \A p \in Procs : pc[p] = "idle"

InitCart == tokens = << >> /\ InitWorkers

NextCart ==
    \/ \E p \in Procs :
        \/ \E m \in {"POST", "DELETE"}, u \in Users, pk \in RequestPks :
               AllIdle /\ shopping_cart(p, m, u, pk)
        \/ ShoppingCartCreate(p)
        \/ ShoppingCartDelete(p)
    \/ \E u \in Users : AllIdle /\ DownloadShoppingCart(u)

SpecCart == InitCart /\ [][NextCart]_vars

(***************************************************************************)
(* The rendering of download_shopping_cart as a function of the aggregate: *)
(* the documents of aggregates of up to MaxLines tuples, longer than the   *)
(* sample tables give.                                                     *)
(***************************************************************************)
MaxLines == 75       \* longest aggregate rendered

SampleList(n, first) ==
    [k \in 1..n |->
        LET i == Ingredients[((k + first) % Len(Ingredients)) + 1] IN
        [ingredient__name |-> i.name,
         ingredient__measurement_unit |-> i.measurement_unit,
         total |-> k]]

RenderShoppingList(user, shopping_list) ==
    /\ download' = [user |-> user, status |-> 200,
                    shopping_list |-> shopping_list,
                    document |-> RenderPdf(shopping_list)]
    /\ resp' = NoResp
    /\ UNCHANGED << linkState, issued, hist, cart, cart_req, recipeVars, subVars >>

NextRender ==
    \E user \in Users, n \in 0..MaxLines, first \in {0, 1} :
        RenderShoppingList(user, SampleList(n, first))

SpecRender == InitCart /\ [][NextRender]_vars

(***************************************************************************)
(* The shopping cart with overlapping requests: the queries of the add and *)
(* remove requests of different workers interleave.                        *)
(***************************************************************************)
NextCartRace ==
    \E p \in Procs :
        \/ \E m \in {"POST", "DELETE"}, u \in Users, pk \in RequestPks :
               shopping_cart(p, m, u, pk)
        \/ ShoppingCartCreate(p)
        \/ ShoppingCartDelete(p)

SpecCartRace == InitCart /\ [][NextCartRace]_vars

(***************************************************************************)
(* CustomUserViewSet.subscribe.  Workers serve requests concurrently: the   *)
(* view's exists(), the serializer's validate, create() and delete() are    *)
(* separate statements of the database.  user 0 is the anonymous user.      *)
(***************************************************************************)
UserPks == 1..(NumUsers + 1)

SubscriptionRows(user, author) == subscriptions[<< user, author >>]

\* variant: the table without the constraint unique_subscription
UniqueSubscriptionUnchecked(user, author) == TRUE

unique_subscription(user, author) == SubscriptionRows(user, author) = 0

prevent_self_subscription(user, author) == user # author

SubscribeResponse(status) ==
    [kind |-> "subscribe", status |-> status, short_url |-> << >>, body |-> << >>]

FinishSubscribe(p, status) ==
    /\ pc' = [pc EXCEPT ![p] = "idle"]
    /\ sub_req' = [sub_req EXCEPT ![p] = NoSubReq]
    /\ resp' = SubscribeResponse(status)
    /\ download' = NoDownload
    /\ UNCHANGED << tokens, req, tok, issued, hist, cart, cart_req, recipeVars >>

ContinueSubscribe(p, label, r) ==
    /\ pc' = [pc EXCEPT ![p] = label]
    /\ sub_req' = [sub_req EXCEPT ![p] = r]
    /\ resp' = NoResp
    /\ download' = NoDownload
    /\ UNCHANGED << tokens, req, tok, issued, hist, cart, cart_req, recipeVars,
                    subscriptions >>

\* permission, get_object_or_404(User), the self check, then exists() for
\* POST or filter().first() for DELETE
subscribe(p, method, user, id) ==
    /\ pc[p] = "idle"
    /\ LET r == [method |-> method, user |-> user, author |-> id] IN
       IF user = 0
       THEN FinishSubscribe(p, 401) /\ UNCHANGED subscriptions
       ELSE IF id \notin Users
       THEN FinishSubscribe(p, 404) /\ UNCHANGED subscriptions
       ELSE IF method = "POST" /\ user = id
       THEN FinishSubscribe(p, 400) /\ UNCHANGED subscriptions
       ELSE IF method = "POST"
       THEN IF SubscriptionRows(user, id) # 0
            THEN FinishSubscribe(p, 400) /\ UNCHANGED subscriptions
            ELSE ContinueSubscribe(p, "sub_validate", r)
       ELSE IF SubscriptionRows(user, id) = 0
            THEN FinishSubscribe(p, 400) /\ UNCHANGED subscriptions
            ELSE ContinueSubscribe(p, "sub_delete", r)

\* serializer.is_valid(raise_exception=True): SubscriptionSerializer.validate
validate(p) ==
    /\ pc[p] = "sub_validate"
    /\ IF \/ SubscriptionRows(sub_req[p].user, sub_req[p].author) # 0
          \/ sub_req[p].user = sub_req[p].author
       THEN FinishSubscribe(p, 400) /\ UNCHANGED subscriptions
       ELSE ContinueSubscribe(p, "sub_insert", sub_req[p])

\* Subscription.objects.create(user=user, author=author): the INSERT is
\* rejected by a constraint with IntegrityError, which the view does not
\* handle.
SubscriptionCreate(p) ==
    /\ pc[p] = "sub_insert"
    /\ LET row == << sub_req[p].user, sub_req[p].author >> IN
       IF /\ unique_subscription(row[1], row[2])
          /\ prevent_self_subscription(row[1], row[2])
       THEN /\ subscriptions' = [subscriptions EXCEPT ![row] = @ + 1]
            /\ FinishSubscribe(p, 201)
       ELSE FinishSubscribe(p, 500) /\ UNCHANGED subscriptions

\* subscription.delete(): DELETE of the rows the filter selects
SubscriptionDelete(p) ==
    /\ pc[p] = "sub_delete"
    /\ subscriptions' =
         [subscriptions EXCEPT ![<< sub_req[p].user, sub_req[p].author >>] = 0]
    /\ FinishSubscribe(p, 204)

NextSubscribe ==
    \E p \in Procs :
        \/ \E m \in {"POST", "DELETE"}, u \in 0..NumUsers, id \in UserPks :
               subscribe(p, m, u, id)
        \/ validate(p)
        \/ SubscriptionCreate(p)
        \/ SubscriptionDelete(p)

SpecSubscribe == InitCart /\ [][NextSubscribe]_vars

(***************************************************************************)
(* RecipeViewSet.create and .update with RecipeCreateUpdateSerializer.     *)
(* The writes of a request run in one transaction (transaction.atomic, on  *)
(* the SQLite database of settings.py, which admits one writer at a time)  *)
(* and the checks before it read only the request, the Ingredient table    *)
(* and the recipe: a request is one step.  The fields other than           *)
(* ingredients are valid, the amounts within the range of the field.       *)
(* User 0 is the anonymous user.  Messages are transliterated.             *)
(***************************************************************************)
ItemCounts == {0, 1, 2}      \* lengths of the ingredient lists submitted

IngredientIds == DOMAIN Ingredients

Items == { [id |-> 1, amount |-> 1], [id |-> 1, amount |-> 2],
           [id |-> 2, amount |-> 1], [id |-> Len(Ingredients) + 1, amount |-> 1] }

IngredientLists == UNION {[1..n -> Items] : n \in ItemCounts}

RecipeResponse(kind, status, detail) ==
    [kind |-> kind, status |-> status, short_url |-> << >>, body |-> detail]

\* a request arrives: POST /api/recipes/ (pk 0), or PUT or PATCH
\* /api/recipes/<pk>/
RecipeRequest(kind, user, pk, data) ==
    /\ recipe_req = NoRecipeReq
    /\ kind = "create" => Len(recipes) <= NumRecipes
    /\ recipe_req' = [kind |-> kind, user |-> user,
                      pk |-> IF kind = "create" THEN 0 ELSE pk, data |-> data]
    /\ resp' = NoResp
    /\ download' = NoDownload
    /\ UNCHANGED << linkState, issued, hist, cart, cart_req, recipes,
                    recipe_ingredients, subVars >>

\* the loop of the view over request.data['ingredients']
IngredientsExist(data) == \A k \in DOMAIN data : data[k].id \in IngredientIds

\* variant: validate_ingredients without the comparison of the lengths
ValidateIngredientsNotEmpty(value) ==
    IF value = << >> THEN "Pole s ingredientami ne dolzhno byt pustym." ELSE ""

\* validate_ingredients: the error raised, "" when the value is accepted
validate_ingredients(value) ==
    IF value = << >>
    THEN "Pole s ingredientami ne dolzhno byt pustym."
    ELSE IF Len(value) # Cardinality({value[k].id : k \in DOMAIN value})
    THEN "Ingredienty ne dolzhny povtoryatsya."
    ELSE ""

\* bulk_create under unique_ingredient_in_recipe: no two new rows, and no
\* new row and stored row, of one (recipe, ingredient) pair
BulkCreateOk(rows, recipe, data) ==
    /\ \A j, k \in DOMAIN data : j # k => data[j].id # data[k].id
    /\ \A k \in DOMAIN data :
          ~\E ri \in rows : ri.recipe = recipe /\ ri.ingredient = data[k].id

NewRows(recipe, data) ==
    {[recipe |-> recipe, ingredient |-> data[k].id, amount |-> data[k].amount] :
        k \in DOMAIN data}

\* recipe.ingredients.clear()
Cleared(recipe) == {ri \in recipe_ingredients : ri.recipe # recipe}

RecipeAnswer(r) ==
    /\ resp' = r
    /\ recipe_req' = NoRecipeReq
    /\ download' = NoDownload
    /\ UNCHANGED << linkState, issued, hist, cart, cart_req, subVars >>

\* _update_create_ingredients inside the transaction of create or update;
\* an IntegrityError rolls the transaction back
update_create_ingredients(kind, status, table, recipe, data) ==
    IF BulkCreateOk(Cleared(recipe), recipe, data)
    THEN /\ recipes' = table
         /\ recipe_ingredients' = Cleared(recipe) \cup NewRows(recipe, data)
         /\ RecipeAnswer(RecipeResponse(kind, status, << >>))
    ELSE /\ RecipeAnswer(RecipeResponse(kind, 500, << >>))
         /\ UNCHANGED << recipes, recipe_ingredients >>

Rejected(kind, status, detail) ==
    /\ RecipeAnswer(RecipeResponse(kind, status, detail))
    /\ UNCHANGED << recipes, recipe_ingredients >>

\* RecipeViewSet.create, RecipeCreateUpdateSerializer.create
create ==
    /\ recipe_req.kind = "create"
    /\ LET user == recipe_req.user
           data == recipe_req.data IN
       IF user = 0
       THEN Rejected("create", 401, << >>)
       ELSE IF ~IngredientsExist(data)
       THEN Rejected("create", 400, "Ingredient ne nayden.")
       ELSE IF validate_ingredients(data) # ""
       THEN Rejected("create", 400, validate_ingredients(data))
       ELSE update_create_ingredients("create", 201, Append(recipes, user),
                                      Len(recipes) + 1, data)

\* RecipeViewSet.update, RecipeCreateUpdateSerializer.update
update ==
    /\ recipe_req.kind = "update"
    /\ LET user == recipe_req.user
           pk == recipe_req.pk
           data == recipe_req.data IN
       IF user = 0
       THEN Rejected("update", 401, << >>)
       ELSE IF ~IngredientsExist(data)
       THEN Rejected("update", 400, "Ingredient ne nayden.")
       ELSE IF pk \notin DOMAIN recipes
       THEN Rejected("update", 404, << >>)
       ELSE IF recipes[pk] # user
       THEN Rejected("update", 403, << >>)
       ELSE IF validate_ingredients(data) # ""
       THEN Rejected("update", 400, validate_ingredients(data))
       ELSE update_create_ingredients("update", 200, recipes, pk, data)

NextRecipe ==
    \/ \E kind \in {"create", "update"}, user \in 0..NumUsers,
          pk \in RequestPks, data \in IngredientLists :
             RecipeRequest(kind, user, pk, data)
    \/ create
    \/ update

SpecRecipe == InitCart /\ [][NextRecipe]_vars

(***************************************************************************)
(* The short-link issuer with the history of its requests recorded,        *)
(* starting from an empty Token table.                                     *)
(***************************************************************************)
InitRecorded ==
    /\ tokens = << >>
    /\ InitRequests
    /\ hist = [NoHist EXCEPT !.recording = TRUE]

SpecRecorded == InitRecorded /\ [][Next]_vars

(***************************************************************************)
(* The short-link issuer in serial executions, history recorded: a request *)
(* starts when no other is being served.  No INSERT is rejected then, so   *)
(* the second SELECT of get_or_create has no step here.                    *)
(***************************************************************************)
NextSerial ==
    \E p \in Procs :
        \/ \E pk \in RequestPks : AllIdle /\ get_link(p, pk)
        \/ \E s \in ShortUrls : AllIdle /\ ShortLinkRedirect(p, s)
        \/ \E d \in Draws : generate_short_url(p, d)
        \/ save(p)
        \/ IncrementAndSave(p)

SpecSerial == InitRecorded /\ [][NextSerial]_vars

(***************************************************************************)
(* The short-link issuer under fair random draws: random.choices gives     *)
(* every string a positive probability at every iteration of the loop of   *)
(* generate_short_url, so a draw that stays possible is eventually made.   *)
(***************************************************************************)
FreshDraw(p, d) == generate_short_url(p, d) /\ pc'[p] = "save"

SpecFair ==
    Init /\ [][Next]_vars /\ \A p \in Procs, d \in Draws : WF_vars(FreshDraw(p, d))

(***************************************************************************)
(* Properties of the short-link issuer (specification Spec).               *)
(***************************************************************************)

\* C1: idempotent issuance.  Every get-link response for a full_url carries
\* the same short_url, the one of the only Token row of that full_url,
\* whatever requests happened in between; no second Token is created for it.
IdempotentIssuance ==
    \A u \in RecipeUrls :
        /\ Cardinality(issued[u]) <= 1
        /\ Cardinality({i \in DOMAIN tokens : tokens[i].full_url = u}) <= 1
        /\ \A s \in issued[u] :
              \E i \in DOMAIN tokens : tokens[i].full_url = u /\ tokens[i].short_url = s

\* a get-link response for a token that was looked up at least twice after
\* its creation
RepeatedIssuance ==
    /\ resp.kind = "get_link" /\ resp.status = 200
    /\ \E i \in DOMAIN tokens :
          /\ tokens[i].short_url = resp.body[2]
          /\ tokens[i].requests_count >= 2
          /\ issued[tokens[i].full_url] = {resp.body[2]}

\* C2: no two Token rows share a short_url, in every interleaving.
ShortUrlUnique ==
    \A i, j \in DOMAIN tokens : i # j => tokens[i].short_url # tokens[j].short_url

\* a worker's INSERT was rejected: the short_url it drew, free when it was
\* checked, had meanwhile been stored for another full_url
ShortUrlCollisionRejected ==
    \E p \in Procs :
        /\ pc[p] = "reget"
        /\ \E i \in DOMAIN tokens :
              /\ tokens[i].short_url = tok[p].short_url
              /\ tokens[i].full_url # tok[p].full_url

\* C3: every stored short_url has TOKEN_LENGTH characters, each an ASCII
\* letter or a digit.
ShortUrlAlphanumeric ==
    \A i \in DOMAIN tokens :
        /\ Len(tokens[i].short_url) = TOKEN_LENGTH
        /\ \A k \in 1..Len(tokens[i].short_url) :
              tokens[i].short_url[k] \in Range(ascii_letters) \cup Range(digits)

\* C4: a redirect request for a short_url that matches no Token, or only an
\* inactive one, is answered not-found, without a full_url, and changes no
\* Token.
RedirectNotFound ==
    [][\A p \in Procs, s \in ShortUrls :
          (/\ ShortLinkRedirect(p, s)
           /\ ~\E i \in DOMAIN tokens : tokens[i].short_url = s /\ tokens[i].is_active)
          => /\ resp' = [kind |-> "redirect", status |-> 404,
                         short_url |-> s, body |-> << >>]
             /\ tokens' = tokens
             /\ pc'[p] = "idle"]_vars

\* a not-found answer to a request for the short_url of an inactive Token
InactiveNotFound ==
    /\ resp.kind = "redirect" /\ resp.status = 404
    /\ \E i \in DOMAIN tokens :
          tokens[i].short_url = resp.short_url /\ ~tokens[i].is_active

CountNeverDecreases ==
    [][\A i \in DOMAIN tokens :
          tokens'[i].requests_count >= tokens[i].requests_count]_vars

\* no worker holds a copy of row i that another request's write made stale
NoStaleCopy(i) ==
    \A p \in Procs :
        (pc[p] # "idle" /\ tok[p].id = i)
        => tok[p].requests_count = tokens[i].requests_count

\* C6 as amended: the stored requests_count of a Token does not decrease in
\* a step taken while no worker holds a copy of the row that another
\* request's write has made stale (requests on the token do not overlap).
CountNeverDecreasesUnlessStale ==
    [][\A i \in DOMAIN tokens :
          NoStaleCopy(i) => tokens'[i].requests_count >= tokens[i].requests_count]_vars

\* a counter that was raised twice
CountedTwice == \E i \in DOMAIN tokens : tokens[i].requests_count >= 2

\* C10: full_url is unique among the Token rows, in every interleaving of
\* concurrent first get-link requests.
FullUrlUnique ==
    \A i, j \in DOMAIN tokens : i # j => tokens[i].full_url # tokens[j].full_url

\* two first requests for one full_url overlapped: the INSERT of one was
\* rejected because the other's row exists
FirstRequestsRaced ==
    \E p \in Procs :
        /\ pc[p] = "reget"
        /\ \E i \in DOMAIN tokens : tokens[i].full_url = tok[p].full_url

(***************************************************************************)
(* Properties of the shopping-list aggregator (specification SpecCart).    *)
(***************************************************************************)
CartedRows(user) == {ri \in recipe_ingredients : cart[<< user, ri.recipe >>] >= 1}

PairOf(ri) == << Ingredients[ri.ingredient].name,
                 Ingredients[ri.ingredient].measurement_unit >>

PairAt(list, k) == << list[k].ingredient__name, list[k].ingredient__measurement_unit >>

RECURSIVE AmountSum(_)
AmountSum(rows) ==
    IF rows = {} THEN 0
    ELSE LET ri == CHOOSE x \in rows : TRUE IN ri.amount + AmountSum(rows \ {ri})

\* C7: the aggregate of a user holds exactly one tuple per distinct
\* (ingredient name, measurement unit) pair among the RecipeIngredient rows
\* of the recipes in the user's cart, and its total is the sum of the
\* amounts of those rows.
AggregateExact ==
    download.user # 0 =>
        LET rows == CartedRows(download.user)
            list == download.shopping_list
        IN /\ \A ri \in rows :
                 Cardinality({k \in DOMAIN list : PairAt(list, k) = PairOf(ri)}) = 1
           /\ \A k \in DOMAIN list :
                 /\ \E ri \in rows : PairOf(ri) = PairAt(list, k)
                 /\ list[k].total =
                      AmountSum({ri \in rows : PairOf(ri) = PairAt(list, k)})

\* an aggregate with a tuple that sums the rows of two carted recipes
AggregatedTwoRecipes ==
    /\ download.user # 0
    /\ \E r1, r2 \in CartedRows(download.user) :
          /\ r1.recipe # r2.recipe
          /\ PairOf(r1) = PairOf(r2)
          /\ \E k \in DOMAIN download.shopping_list :
                /\ PairAt(download.shopping_list, k) = PairOf(r1)
                /\ download.shopping_list[k].total >= r1.amount + r2.amount

\* a is before b, or equal to it, in the alphabetical order of names
AlphaLeq(a, b) ==
    \E k \in 0..Len(a) :
        /\ k <= Len(b)
        /\ \A i \in 1..k : a[i] = b[i]
        /\ \/ k = Len(a)
           \/ k < Len(b) /\ CharRank(a[k + 1]) < CharRank(b[k + 1])

\* C8: the aggregate is sorted in non-decreasing alphabetical order of the
\* ingredient name.
SortedByName ==
    download.user # 0 =>
        \A k \in 1..(Len(download.shopping_list) - 1) :
            AlphaLeq(download.shopping_list[k].ingredient__name,
                     download.shopping_list[k + 1].ingredient__name)

\* an aggregate of four tuples or more
SortedSeveral == download.user # 0 /\ Len(download.shopping_list) >= 4

\* C9: for a user whose cart is empty the aggregate is the empty sequence
\* and the download completes with a document of the header line alone.
EmptyCartDownload ==
    (download.user # 0 /\ \A r \in RecipeIds : cart[<< download.user, r >>] = 0)
    => /\ download.status = 200
       /\ download.shopping_list = << >>
       /\ Len(download.document) = 1
       /\ download.document[1] = << Header >>

\* a download for a user with an empty cart while another cart holds a recipe
EmptyCartDownloaded ==
    /\ download.user # 0
    /\ \A r \in RecipeIds : cart[<< download.user, r >>] = 0
    /\ \E u \in Users, r \in RecipeIds : cart[<< u, r >>] >= 1
    /\ download.status = 200

(***************************************************************************)
(* Properties of overlapping requests on the short-link issuer             *)
(* (specifications SpecRecorded, Spec, SpecFair, SpecSerial).              *)
(***************************************************************************)

\* C11: when two get-link requests for one full_url race on creation and the
\* INSERT of one is rejected because the other's row exists, the losing
\* request reads the existing row again and is answered, like the winner,
\* with the short_url of that row: no server error, one short_url issued.
CreationRaceSettled ==
    [][\A p \in Procs :
          /\ (/\ pc[p] = "reget" /\ pc'[p] # "reget"
               /\ \E i \in DOMAIN tokens : tokens[i].full_url = req[p].full_url)
             => /\ pc'[p] = "update"
                /\ tok'[p].id \in DOMAIN tokens
                /\ tokens[tok'[p].id].full_url = req[p].full_url
                /\ tok'[p].short_url = tokens[tok'[p].id].short_url
          /\ (hist.refetched[p] /\ pc'[p] = "idle")
             => /\ resp'.kind = "get_link" /\ resp'.status = 200
                /\ resp'.body = << BASE_SHORT_URL, tokens[tok[p].id].short_url >>
                /\ tokens'[tok[p].id].short_url = tokens[tok[p].id].short_url
                /\ issued[req[p].full_url] = {tokens[tok[p].id].short_url}
                /\ issued'[req[p].full_url] = issued[req[p].full_url]
                /\ hist'.lookups[req[p].full_url] >= 2]_vars

\* the loser of a creation race has read the winner's row again, after the
\* winner was answered
CreationRaceLoserRefetched ==
    \E p \in Procs :
        /\ hist.refetched[p] /\ pc[p] = "update"
        /\ issued[req[p].full_url] = {tok[p].short_url}
        /\ hist.lookups[req[p].full_url] = 1

\* C12: a short_url collision is never surfaced as an error: no get-link
\* request is answered with a server error, also when requests for
\* different URLs draw the same candidate between the existence check and
\* the INSERT.
GetLinkNeverFails == ~(resp.kind = "get_link" /\ resp.status = 500)

AllShortUrlsUsed == \A s \in ShortUrls : \E i \in DOMAIN tokens : tokens[i].short_url = s

\* C13: under fair random draws the loop of generate_short_url terminates
\* whenever a string of the fixed length stays unused, and the value it
\* returns is not the short_url of any Token that exists at the moment of
\* its check.
GeneratorTerminatesFresh ==
    /\ \A p \in Procs : (pc[p] = "gen") ~> (pc[p] # "gen" \/ AllShortUrlsUsed)
    /\ [][\A p \in Procs :
             (pc[p] = "gen" /\ pc'[p] # "gen")
             => /\ pc'[p] = "save"
                /\ Len(tok'[p].short_url) = TOKEN_LENGTH
                /\ ~\E i \in DOMAIN tokens :
                       tokens[i].short_url = tok'[p].short_url]_vars

\* the loop has returned a string while the table holds other short_urls
GeneratorReturned ==
    \E p \in Procs :
        /\ pc[p] = "save" /\ tok[p].id = 0
        /\ Len(tokens) >= 2
        /\ ~\E i \in DOMAIN tokens : tokens[i].short_url = tok[p].short_url

\* C14: the increment loses updates and never over-counts.  A redirect that
\* read requests_count n before another request wrote n + 1 writes n + 1
\* again, so two lookups leave n + 1 rather than n + 2; and in every
\* execution the requests_count of a Token is at most the number of lookups
\* answered from it (below it, the creating lookup not being counted).
LostUpdateNeverOverCounts ==
    [][/\ \A i \in DOMAIN tokens' :
             tokens'[i].full_url \in RecipeUrls
             => tokens'[i].requests_count < hist'.lookups[tokens'[i].full_url]
       /\ \A p \in Procs :
             (/\ pc[p] = "update" /\ req[p].kind = "redirect" /\ pc'[p] = "idle"
              /\ tokens[tok[p].id].requests_count = tok[p].requests_count + 1)
             => /\ tokens'[tok[p].id].requests_count = tok[p].requests_count + 1
                /\ hist'.lookups[tok[p].full_url]
                     = hist.lookups[tok[p].full_url] + 1]_vars

\* a redirect was answered and an update of its Token is lost: the count
\* is two or more below the number of lookups answered from the Token
LostUpdate ==
    /\ resp.kind = "redirect" /\ resp.status = 302
    /\ \E i \in DOMAIN tokens :
          /\ tokens[i].short_url = resp.short_url
          /\ tokens[i].requests_count + 2 <= hist.lookups[tokens[i].full_url]

WithoutCount(row) == [row EXCEPT !.requests_count = 0]

\* C15: the counter race corrupts nothing else.  The write-back of a request
\* that holds a copy of a stored Token, stale or not, leaves the row as the
\* write of a request served alone would, requests_count apart: full_url,
\* short_url and is_active keep their values, and no other row changes.
CounterRaceFrame ==
    [][\A p \in Procs :
          (tok[p].id # 0 /\ pc[p] # "idle" /\ pc'[p] = "idle")
          => /\ DOMAIN tokens' = DOMAIN tokens
             /\ WithoutCount(tokens'[tok[p].id])
                  = WithoutCount([tokens[tok[p].id] EXCEPT
                                    !.requests_count = @ + 1])
             /\ \A j \in DOMAIN tokens : j # tok[p].id => tokens'[j] = tokens[j]]_vars

\* a get-link request wrote back a stale copy: the stored count is two or
\* more below the number of lookups answered from the Token
StaleWriteBack ==
    /\ resp.kind = "get_link" /\ resp.status = 200
    /\ \E i \in DOMAIN tokens :
          /\ tokens[i].short_url = resp.body[2]
          /\ tokens[i].requests_count + 2 <= hist.lookups[tokens[i].full_url]

Answered(p) ==
    req[p].kind # "none" /\ pc'[p] = "idle" /\ resp'.status \in {200, 302}

\* C16 as stated: every lookup changes requests_count.  Each answered
\* get-link request, the creating one included, and each answered redirect
\* leaves the requests_count of its Token different from what it was (from
\* the default 0 for a Token the request creates).
EveryLookupCounts ==
    [][\A p \in Procs :
          Answered(p)
          => \E i \in DOMAIN tokens' :
                /\ tokens'[i].full_url = tok[p].full_url
                /\ tokens'[i].requests_count
                     # (IF i \in DOMAIN tokens THEN tokens[i].requests_count ELSE 0)]_vars

\* C16 as amended: every lookup other than the creating one writes
\* requests_count.  An answered get-link request that found its Token and
\* an answered redirect store the value they read plus 1, which changes the
\* stored count when no other request wrote the Token in between; the
\* get-link request that creates the Token stores the default 0.
LookupWritesCount ==
    [][\A p \in Procs :
          Answered(p)
          => IF tok[p].id = 0
             THEN /\ Len(tokens') = Len(tokens) + 1
                  /\ tokens'[Len(tokens')].full_url = tok[p].full_url
                  /\ tokens'[Len(tokens')].requests_count = 0
             ELSE /\ tokens'[tok[p].id].requests_count = tok[p].requests_count + 1
                  /\ (tokens[tok[p].id].requests_count = tok[p].requests_count
                      => tokens'[tok[p].id].requests_count
                           # tokens[tok[p].id].requests_count)]_vars

\* the creating get-link request was answered and the count is the default
CreatedUncounted ==
    /\ resp.kind = "get_link" /\ resp.status = 200
    /\ \E i \in DOMAIN tokens :
          /\ tokens[i].short_url = resp.body[2]
          /\ tokens[i].requests_count = 0
          /\ \E j \in DOMAIN tokens : tokens[j].requests_count >= 1

\* C17: round trip.  A redirect request with a short_url that get-link
\* returned for the recipe URL u finds an active Token and is served from
\* the Token of u; every Token that get-link creates is active; no
\* short_url is returned for two different full URLs.
RoundTrip ==
    [][/\ \A p \in Procs, s \in ShortUrls, u \in RecipeUrls :
             (ShortLinkRedirect(p, s) /\ s \in issued[u])
             => /\ pc'[p] = "update"
                /\ tok'[p].is_active
                /\ tok'[p].full_url = u
       /\ \A i \in DOMAIN tokens' : i \notin DOMAIN tokens => tokens'[i].is_active
       /\ \A u, v \in RecipeUrls : u # v => issued'[u] \cap issued'[v] = {}]_vars

\* C20: exact sequential counting.  In executions without overlapping
\* requests that start with no Token, after k >= 1 get-link requests and m
\* successful redirects for a URL (hist.lookups counts k + m) the
\* requests_count of its Token is (k - 1) + m: 0 after the creating
\* request, 1 after a second get-link.  No INSERT is rejected on the way.
ExactSequentialCount ==
    /\ \A u \in RecipeUrls :
          (hist.lookups[u] >= 1)
          <=> (\E i \in DOMAIN tokens : tokens[i].full_url = u)
    /\ \A i \in DOMAIN tokens :
          tokens[i].requests_count = hist.lookups[tokens[i].full_url] - 1
    /\ \A p \in Procs : pc[p] # "reget"

\* a redirect was answered from a Token looked up three times
SequentiallyCounted ==
    /\ resp.kind = "redirect" /\ resp.status = 302
    /\ \E i \in DOMAIN tokens :
          /\ tokens[i].short_url = resp.short_url
          /\ tokens[i].requests_count = 2
          /\ hist.lookups[tokens[i].full_url] = 3

(***************************************************************************)
(* Properties of the tables under overlapping requests (specifications     *)
(* SpecCartRace, SpecRecipe).                                              *)
(***************************************************************************)

\* C18: at most one ShoppingCart row exists for any (user, recipe) pair,
\* after any sequence and any interleaving of add and remove requests.
CartEntryUnique == \A c \in DOMAIN cart : cart[c] <= 1

\* the INSERT of an add request was rejected: its exists() check had found
\* no row, and the row of an overlapping add request is now stored
CartInsertRejected ==
    /\ resp.kind = "shopping_cart" /\ resp.status = 500
    /\ \E c \in DOMAIN cart : cart[c] = 1

HasRepeat(data) == \E j, k \in DOMAIN data : j # k /\ data[j].id = data[k].id

RowsOf(table, recipe) ==
    {<< ri.ingredient, ri.amount >> : ri \in {x \in table : x.recipe = recipe}}

MayWrite(r) ==
    /\ r.user # 0
    /\ IngredientsExist(r.data)
    /\ r.kind = "update" => (r.pk \in DOMAIN recipes /\ recipes[r.pk] = r.user)

\* C19: at most one RecipeIngredient row exists for any (recipe, ingredient)
\* pair; a recipe create or update whose ingredient list repeats an
\* ingredient id is rejected (a client error, the validation error when the
\* request passes the checks before it) without changing any row; after an
\* accepted update the rows of the recipe are exactly the submitted
\* (ingredient, amount) pairs, the rows of the other recipes unchanged.
RecipeIngredientUnique ==
    [][/\ \A r1, r2 \in recipe_ingredients' :
             (r1.recipe = r2.recipe /\ r1.ingredient = r2.ingredient) => r1 = r2
       /\ (recipe_req.kind # "none" /\ recipe_req'.kind = "none")
          => LET r == recipe_req IN
             /\ HasRepeat(r.data)
                => /\ resp'.status \in {400, 401, 403, 404}
                   /\ MayWrite(r)
                      => resp'.body = "Ingredienty ne dolzhny povtoryatsya."
                   /\ UNCHANGED << recipes, recipe_ingredients >>
             /\ (r.kind = "update" /\ resp'.status = 200)
                => /\ RowsOf(recipe_ingredients', r.pk)
                        = {<< r.data[k].id, r.data[k].amount >> : k \in DOMAIN r.data}
                   /\ Cardinality({ri \in recipe_ingredients' : ri.recipe = r.pk})
                        = Len(r.data)
                   /\ Cleared(r.pk) = {ri \in recipe_ingredients' : ri.recipe # r.pk}]_vars

\* an update with a repeated ingredient id was rejected by the validation,
\* after an accepted update had replaced the rows of a recipe
RepeatedIngredientRejected ==
    /\ resp.kind = "update" /\ resp.status = 400
    /\ resp.body = "Ingredienty ne dolzhny povtoryatsya."
    /\ \E pk \in RecipeIds :
          /\ RowsOf(recipe_ingredients, pk) # RowsOf(RecipeIngredients, pk)
          /\ Cardinality(RowsOf(recipe_ingredients, pk)) = 2

(***************************************************************************)
(* Further properties of the shopping-list aggregator and the cart         *)
(* (specifications SpecCart, SpecCartRace).                                *)
(***************************************************************************)

\* C21: the aggregate is a deterministic function of the database content.
\* A download that follows a download of the same user, the cart and the
\* recipe data unchanged, returns the identical sequence, also when two
\* tuples share the ingredient name and differ in the measurement unit.
AggregateDeterministic ==
    [][(/\ download.user # 0
        /\ download'.user = download.user
        /\ cart' = cart
        /\ recipe_ingredients' = recipe_ingredients)
       => download'.shopping_list = download.shopping_list]_vars

\* C22: user isolation.  The tuples of the aggregate of user A depend on
\* A's own cart only: a step that leaves A's cart rows as they are (an add
\* or a remove in another user's cart) leaves them unchanged, no row of a
\* recipe that is not in A's cart is joined for A, and a download of A
\* returns exactly these tuples, each from a recipe of A's cart.
AggregateIsolated ==
    /\ [](\A a \in Users :
            /\ \A j \in Joined(a) : cart[<< a, j[1].recipe >>] >= 1
            /\ download.user = a
               => /\ Range(download.shopping_list) = Groups(a)
                  /\ \A k \in DOMAIN download.shopping_list :
                        \E ri \in recipe_ingredients :
                           /\ cart[<< a, ri.recipe >>] >= 1
                           /\ PairOf(ri) = PairAt(download.shopping_list, k))
    /\ [][\A a \in Users :
             (/\ cart' # cart
              /\ \A r \in RecipeIds : cart'[<< a, r >>] = cart[<< a, r >>]
              /\ recipe_ingredients' = recipe_ingredients)
             => Groups(a)' = Groups(a)]_vars

\* a download of a user while another user's cart holds a recipe that the
\* user's own cart does not hold
IsolatedDownload ==
    /\ download.user # 0 /\ download.shopping_list # << >>
    /\ \E u \in Users, r \in RecipeIds :
          /\ u # download.user
          /\ cart[<< u, r >>] >= 1
          /\ cart[<< download.user, r >>] = 0

\* the lines of a document in drawing order, each with its page
RECURSIVE Flat(_, _)
Flat(document, i) ==
    IF i > Len(document) THEN << >>
    ELSE [j \in 1..Len(document[i]) |->
             [page |-> i, y |-> document[i][j].y, text |-> document[i][j].text]]
         \o Flat(document, i + 1)

\* C23: the document draws each tuple of the aggregate exactly once, in
\* aggregate order, one line per tuple, after the header; the first line
\* is at 720, each line is 20 below the line before it on the same page,
\* and a line starts a new page at 750 exactly when the position after the
\* line before it is below 50; every line is at a y with 50 <= y <= 750.
RenderedInOrder ==
    download.user # 0 =>
        LET list == download.shopping_list
            flat == Flat(download.document, 1)
            lines == Tail(flat)
        IN /\ Head(flat) = [page |-> 1, y |-> 750, text |-> Header.text]
           /\ Len(lines) = Len(list)
           /\ \A k \in DOMAIN lines :
                 /\ lines[k].text = << list[k].ingredient__name, list[k].total,
                                       list[k].ingredient__measurement_unit >>
                 /\ 50 <= lines[k].y /\ lines[k].y <= 750
           /\ lines # << >> => (lines[1].y = 720 /\ lines[1].page = 1)
           /\ \A k \in 1..(Len(lines) - 1) :
                 IF lines[k].y - 20 < 50
                 THEN lines[k + 1].y = 750 /\ lines[k + 1].page = lines[k].page + 1
                 ELSE /\ lines[k + 1].y = lines[k].y - 20
                      /\ lines[k + 1].page = lines[k].page

\* a document of three pages
RenderedThreePages == download.user # 0 /\ Len(download.document) >= 3

(***************************************************************************)
(* Further properties of the short-link issuer (specification Spec).       *)
(***************************************************************************)

\* C24: every short link issued by get-link is resolvable through the
\* redirect route: each short_url returned by get-link matches the route
\* pattern [a-zA-Z0-9]{6}.
IssuedMatchesRoute ==
    \A u \in RecipeUrls : \A s \in issued[u] : RouteMatches(s)

\* C25: once a Token is created its full_url and short_url never change.
\* Every step keeps the stored rows, with their full_url, short_url and
\* is_active; a row changes (in requests_count only) in the step that ends
\* a request holding that row, and in no other; a short_url is generated
\* only for an instance that has none, and no stored short_url is empty.
TokenFrame ==
    [][/\ Len(tokens') >= Len(tokens)
       /\ \A i \in DOMAIN tokens :
             /\ tokens'[i].full_url = tokens[i].full_url
             /\ tokens'[i].short_url = tokens[i].short_url
             /\ tokens'[i].is_active = tokens[i].is_active
             /\ tokens'[i] # tokens[i]
                => \E p \in Procs :
                      /\ pc[p] # "idle" /\ pc'[p] = "idle" /\ tok[p].id = i
                      /\ \A j \in DOMAIN tokens : j # i => tokens'[j] = tokens[j]
       /\ \A i \in DOMAIN tokens' : tokens'[i].short_url # << >>
       /\ \A p \in Procs :
             (pc[p] # "gen" /\ pc'[p] = "gen") => tok'[p].short_url = << >>]_vars

\* a redirect re-saved the row of its Token beside the Token of another
\* recipe
ResavedBesideOther ==
    /\ resp.kind = "redirect" /\ resp.status = 302
    /\ \E i, j \in DOMAIN tokens :
          /\ i # j
          /\ tokens[i].short_url = resp.short_url
          /\ tokens[i].requests_count >= 1
          /\ tokens[j].is_active

(***************************************************************************)
(* Further properties of the shopping cart (specifications SpecCartRace,   *)
(* SpecCart).                                                              *)
(***************************************************************************)

\* C26: when two add requests for one (user, recipe) both pass the
\* existence check before either inserts, one ShoppingCart row results and
\* the request that inserts second is answered with the 400 error, not
\* with an unhandled failure of the uniqueness constraint.
CartRaceAnswered400 ==
    [][\A p \in Procs :
          (/\ pc[p] = "cart_insert" /\ pc'[p] = "idle"
           /\ cart[<< cart_req[p].user, cart_req[p].recipe >>] >= 1)
          => /\ cart'[<< cart_req[p].user, cart_req[p].recipe >>] = 1
             /\ resp' = CartResponse(400)]_vars

\* C27: error outcomes of the shopping cart leave the state unchanged.  In
\* serial executions an add of a recipe that is in the user's cart is
\* answered 400 and creates no row, a remove of a recipe that is not in the
\* cart is answered 400 and deletes nothing; a successful add puts one row
\* where there was none and a successful remove takes that row away, so
\* an add followed by a remove restores the cart.
CartErrorsChangeNothing ==
    [][/\ resp'.kind = "shopping_cart"
          => \A p \in Procs, u \in Users, pk \in RecipeIds :
                /\ (shopping_cart(p, "POST", u, pk) /\ cart[<< u, pk >>] >= 1)
                   => resp' = CartResponse(400) /\ cart' = cart
                /\ (shopping_cart(p, "DELETE", u, pk) /\ cart[<< u, pk >>] = 0)
                   => resp' = CartResponse(400) /\ cart' = cart
       /\ \A p \in Procs :
             LET row == << cart_req[p].user, cart_req[p].recipe >> IN
             /\ (pc[p] = "cart_insert" /\ resp' = CartResponse(201))
                => cart[row] = 0 /\ cart' = [cart EXCEPT ![row] = 1]
             /\ (pc[p] = "cart_delete" /\ pc'[p] = "idle")
                => /\ resp' = CartResponse(204)
                   /\ cart[row] = 1 /\ cart' = [cart EXCEPT ![row] = 0]
       /\ \A c \in DOMAIN cart : cart'[c] \in {0, 1}]_vars

\* an add or a remove was answered with the error while a cart holds a row
CartErrorAnswered ==
    /\ resp = CartResponse(400)
    /\ \E c \in DOMAIN cart : cart[c] = 1

\* C28: in every reachable state no Subscription has user = author and no
\* (user, author) pair has two rows.  A subscribe request for oneself or for
\* an author the user is subscribed to is answered 400, an unsubscribe
\* request without a subscription is answered 400, and a step that answers
\* with an error leaves the Subscription table as it was.
SubscriptionsSound ==
    /\ [](\A u, a \in Users :
            /\ subscriptions[<< u, a >>] <= 1
            /\ u = a => subscriptions[<< u, a >>] = 0)
    /\ [][resp'.kind = "subscribe"
          => /\ resp'.status \notin {201, 204} => subscriptions' = subscriptions
             /\ \A p \in Procs, u, a \in Users :
                   /\ (/\ subscribe(p, "POST", u, a)
                       /\ u = a \/ subscriptions[<< u, a >>] >= 1)
                      => resp' = SubscribeResponse(400)
                   /\ (/\ subscribe(p, "DELETE", u, a)
                       /\ subscriptions[<< u, a >>] = 0)
                      => resp' = SubscribeResponse(400)]_vars

\* a subscribe or unsubscribe request was answered with the error while a
\* subscription exists
SubscribeRejected ==
    /\ resp = SubscribeResponse(400)
    /\ \E c \in DOMAIN subscriptions : subscriptions[c] = 1

\* C29: a get-link request for a recipe id that does not exist is answered
\* not-found and leaves the Token table as it was; a step that adds a Token
\* adds one row, for the full_url of an existing recipe that a get-link
\* request being served asked for, with is_active = TRUE and
\* requests_count = 0.
TokensOnlyByGetLink ==
    [][/\ \A p \in Procs, pk \in RequestPks \ RecipeIds :
             get_link(p, pk)
             => /\ resp' = NotFound("get_link", << >>)
                /\ tokens' = tokens
       /\ Len(tokens') # Len(tokens)
          => /\ Len(tokens') = Len(tokens) + 1
             /\ SubSeq(tokens', 1, Len(tokens)) = tokens
             /\ LET new == tokens'[Len(tokens')] IN
                /\ new.is_active = TRUE
                /\ new.requests_count = 0
                /\ new.full_url \in RecipeUrls
                /\ \E p \in Procs :
                      /\ req[p].kind = "get_link"
                      /\ req[p].full_url = new.full_url
                      /\ pc'[p] # pc[p]]_vars

\* a get-link request for a missing recipe was answered not-found beside a
\* Token that a get-link request created
MissingRecipeNotFound ==
    /\ resp = NotFound("get_link", << >>)
    /\ \E i \in TokenIds : tokens[i].is_active

====
